---- MODULE Spec2Model ----
(***************************************************************************)
(* A model of src/tools/lizard/eval-repos/synthetic/rust/massive.rs:       *)
(* the binary search tree, the weighted graph (dijkstra, bfs, dfs), the    *)
(* two sorts and the dynamic-programming routines.                         *)
(***************************************************************************)
EXTENDS Integers, Sequences, FiniteSets, Bags, TLC

VARIABLES
    \* ---- Graph (struct Graph and the locals of its running query) ----
    vertices,   \* Graph.vertices
    edges,      \* Graph.edges: HashMap<usize, Vec<Edge>>, a function on the keys present
    gpc,        \* position: "idle", "dijkstra", "relax", "bfs", "dfs", "done", "panic"
    gop,        \* the query that is running or has returned: "none", "dijkstra", "bfs", "dfs"
    start,      \* the argument source / start of the running query
    dist,       \* dijkstra: dist
    visited,    \* dijkstra: visited (Vec<bool>)
    heap,       \* dijkstra: heap (BinaryHeap<PQItem<usize>>), a bag of items
    cur,        \* dijkstra: u of the iteration whose for loop is running
    ei,         \* dijkstra: position of the for loop in edges[u] (1-based)
    seen,       \* bfs, dfs: visited (HashSet<usize>)
    queue,      \* bfs: queue (VecDeque<usize>)
    stack,      \* dfs: the call stack of dfs_helper, frames [u, i]
    result,     \* the value returned (dijkstra: dist; bfs, dfs: result)
    pushes,     \* history: bfs: the vertices queue.push_back was called with, a bag
    last,       \* history: the last query on the graph that returned, and its result
    \* ---- BST ----
    root,       \* BST.root: Option<Box<TreeNode>>, << >> for None and <<node>> for Some
    inserted,   \* history: the values insert was called with
    ninserts,   \* history: the number of insert calls
    bres,       \* the last query on the tree and what it returned
    \* ---- sorting ----
    arr,        \* the slice quick_sort works on, or the argument of merge_sort
    input,      \* history: the slice as it was passed in
    spc,        \* position: "idle", "qs", "done", "panic"
    sop,        \* the function called: "none", "quick_sort", "merge_sort"
    qstack,     \* the call stack of quick_sort_helper, frames [low, high, pc, p]
    sres,       \* what merge_sort returned
    \* ---- dynamic programming ----
    s1,         \* lcs, edit_distance: s1 as its chars (code points)
    s2,         \* lcs, edit_distance: s2 as its chars (code points)
    kweights,   \* knapsack: weights
    kvalues,    \* knapsack: values
    kcap,       \* knapsack: capacity
    dop,        \* the function called: "none", "lcs", "edit_distance", "knapsack"
    dpc,        \* position: "idle", "fill", "back", "done", "panic"
    dp,         \* the table dp
    di,         \* the loop variable i
    dj,         \* the loop variable j (knapsack: w)
    dres        \* lcs: result as it grows; otherwise the value returned

graphVars == <<vertices, edges, gpc, gop, start, dist, visited, heap, cur, ei,
               seen, queue, stack, result, pushes, last>>

bstVars == <<root, inserted, ninserts, bres>>

sortVars == <<arr, input, spc, sop, qstack, sres>>

dpVars == <<s1, s2, kweights, kvalues, kcap, dop, dpc, dp, di, dj, dres>>

vars == <<graphVars, bstVars, sortVars, dpVars>>

\* what the operations of one component leave alone
notGraph == <<bstVars, sortVars, dpVars>>
notBst == <<graphVars, sortVars, dpVars>>
notSort == <<graphVars, bstVars, dpVars>>
notDp == <<graphVars, bstVars, sortVars>>

\* ---- bounds of the model ----
NumVertices == 3
MaxEdges == 2
MaxVal == 4
MaxInserts == 4
MaxKey == 3
MaxLen == 4
MaxStrLen == 3
MaxItems == 3
MaxCap == 2

\* ---- program constants ----
I32_MAX == 2147483647
I32_MIN == (-2147483647) - 1

\* the edge weights the model draws from (i32 values)
Weights == {0, 1, I32_MAX}

\* ======================= helpers =======================

\* the sum wrapping around at the ends of i32
AddWrapping(a, b) ==
    IF b > 0 /\ a > I32_MAX - b THEN ((a - (I32_MAX - b)) - 1) + I32_MIN
    ELSE IF b < 0 /\ a < I32_MIN - b THEN ((a - (I32_MIN - b)) + I32_MAX) + 1
    ELSE a + b

\* i32::saturating_add
SaturatingAdd(a, b) ==
    IF b >= 0
    THEN (IF a > I32_MAX - b THEN I32_MAX ELSE a + b)
    ELSE (IF a < I32_MIN - b THEN I32_MIN ELSE a + b)

\* struct Edge
Edge(to, weight) == [to |-> to, weight |-> weight]

\* struct PQItem<usize>
PQItem(value, priority) == [value |-> value, priority |-> priority]

\* the ordering without the inversion: a max-heap on priority
PQGreaterNotInverted(self, other) == self.priority > other.priority

\* impl Ord for PQItem: other.priority.cmp(&self.priority); Greater means self
\* is popped before other by the max-heap
PQGreater(self, other) == other.priority > self.priority

\* a push dropped when the heap already holds an entry of the vertex
HeapPushUnlessQueued(h, item) ==
    IF \E x \in BagToSet(h) : x.value = item.value THEN h ELSE h (+) SetToBag({item})

\* BinaryHeap::push
HeapPush(h, item) == h (+) SetToBag({item})

\* a pop that returns any of the items
HeapAny(h) == BagToSet(h)

\* BinaryHeap::pop returns a greatest item; which one among equals is left open
HeapTop(h) == {x \in BagToSet(h) : \A y \in BagToSet(h) : ~PQGreater(y, x)}

\* the number of edges the graph holds (what the model bounds add_edge by)
EdgeCountOf(es) ==
    LET RECURSIVE Sum(_)
        Sum(S) == IF S = {} THEN 0
                  ELSE LET k == CHOOSE x \in S : TRUE
                       IN Len(es[k]) + Sum(S \ {k})
    IN Sum(DOMAIN es)

\* the new edge put before the edges the list holds
PushEdgeFront(es, from, e) ==
    [k \in (DOMAIN es) \cup {from} |->
        IF k = from
        THEN (IF from \in DOMAIN es THEN <<e>> \o es[from] ELSE <<e>>)
        ELSE es[k]]

\* HashMap::entry(from).or_insert_with(Vec::new).push(e)
PushEdge(es, from, e) ==
    [k \in (DOMAIN es) \cup {from} |->
        IF k = from
        THEN (IF from \in DOMAIN es THEN Append(es[from], e) ELSE <<e>>)
        ELSE es[k]]

\* the graph of the spec's concrete scenario, built by five add_edge calls
ScenarioEdges ==
    PushEdge(PushEdge(PushEdge(PushEdge(PushEdge(<< >>,
        0, Edge(1, 4)), 0, Edge(2, 1)), 2, Edge(1, 1)), 1, Edge(3, 1)), 2, Edge(3, 5))
ScenarioVertices == 4

\* a second graph on four vertices, built by six add_edge calls: a cycle
\* through 0 and 1, a self-loop, parallel edges and weights of i32::MAX
CyclicEdges ==
    PushEdge(PushEdge(PushEdge(PushEdge(PushEdge(PushEdge(<< >>,
        0, Edge(1, 1)), 1, Edge(0, 0)), 1, Edge(1, 1)), 0, Edge(2, I32_MAX)),
        0, Edge(2, I32_MAX)), 2, Edge(3, 1))

\* ======================= Graph =======================

GraphIdle ==
    /\ gpc = "idle" /\ gop = "none" /\ start = 0
    /\ dist = << >> /\ visited = << >> /\ heap = EmptyBag
    /\ cur = 0 /\ ei = 0
    /\ seen = {} /\ queue = << >> /\ stack = << >> /\ result = << >>
    /\ pushes = EmptyBag
    /\ last = [op |-> "none"]

NoQuery == [op |-> "none"]

\* BST::new()
BstNew == root = << >> /\ inserted = {} /\ ninserts = 0 /\ bres = NoQuery

\* no slice passed to a sort
SortIdle ==
    /\ arr = << >> /\ input = << >> /\ spc = "idle" /\ sop = "none"
    /\ qstack = << >> /\ sres = << >>

\* no call of a dynamic-programming routine
DpLocalsIdle ==
    dop = "none" /\ dpc = "idle" /\ dp = << >> /\ di = 0 /\ dj = 0 /\ dres = << >>

DpIdle ==
    /\ s1 = << >> /\ s2 = << >>
    /\ kweights = << >> /\ kvalues = << >> /\ kcap = 0
    /\ DpLocalsIdle

\* Graph::new(vertices), or one of the two larger graphs already built
InitGraph ==
    /\ \/ vertices = NumVertices /\ edges = << >>
       \/ vertices = ScenarioVertices /\ edges = ScenarioEdges
       \/ vertices = ScenarioVertices /\ edges = CyclicEdges
    /\ GraphIdle
    /\ BstNew
    /\ SortIdle
    /\ DpIdle

\* Graph::add_edge
AddEdge(from, to, weight) ==
    /\ gpc = "idle"
    /\ EdgeCountOf(edges) < MaxEdges
    /\ edges' = PushEdge(edges, from, Edge(to, weight))
    /\ UNCHANGED <<vertices, gpc, gop, start, dist, visited, heap, cur, ei,
                   seen, queue, stack, result>>
    /\ UNCHANGED <<pushes, last>>
    /\ UNCHANGED notGraph

\* the table filled with zeros
InitDistZero(n, source) == [v \in 0..(n - 1) |-> 0]

\* lines 133 and 137: vec![i32::MAX; vertices], then dist[source] = 0
InitDist(n, source) == [v \in 0..(n - 1) |-> IF v = source THEN 0 ELSE I32_MAX]

\* a source outside 0..vertices giving the table as initialized
DijkstraCallUnchecked(source) ==
    /\ gpc = "idle"
    /\ gop' = "dijkstra"
    /\ start' = source
    /\ IF source >= vertices
       THEN /\ gpc' = "done"
            /\ result' = [v \in 0..(vertices - 1) |-> I32_MAX]
            /\ UNCHANGED <<dist, visited, heap>>
       ELSE /\ gpc' = "dijkstra"
            /\ dist' = InitDist(vertices, source)
            /\ visited' = [v \in 0..(vertices - 1) |-> FALSE]
            /\ heap' = SetToBag({PQItem(source, 0)})
            /\ UNCHANGED result
    /\ UNCHANGED <<vertices, edges, cur, ei, seen, queue, stack>>
    /\ UNCHANGED <<pushes, last>>
    /\ UNCHANGED notGraph

\* Graph::dijkstra, lines 133-141: the tables, dist[source] = 0, the first push
DijkstraCall(source) ==
    /\ gpc = "idle"
    /\ gop' = "dijkstra"
    /\ start' = source
    /\ IF source >= vertices
       THEN \* dist[source] = 0 indexes out of bounds
            /\ gpc' = "panic"
            /\ UNCHANGED <<dist, visited, heap>>
       ELSE /\ gpc' = "dijkstra"
            /\ dist' = InitDist(vertices, source)
            /\ visited' = [v \in 0..(vertices - 1) |-> FALSE]
            /\ heap' = SetToBag({PQItem(source, 0)})
    /\ UNCHANGED <<vertices, edges, cur, ei, seen, queue, stack, result>>
    /\ UNCHANGED <<pushes, last>>
    /\ UNCHANGED notGraph

\* no entry taken for stale
NeverStale(u) == FALSE

\* line 144: `if visited[u]`, the entry popped is stale
Stale(u) == visited[u]

\* one turn of `while let Some(..) = heap.pop()` up to the for loop
DijkstraPop ==
    /\ gpc = "dijkstra"
    /\ \E item \in HeapTop(heap) :
        LET u == item.value IN
        /\ heap' = heap (-) SetToBag({item})
        /\ IF Stale(u)
           THEN UNCHANGED <<visited, gpc, cur, ei>>
           ELSE /\ visited' = [visited EXCEPT ![u] = TRUE]
                /\ IF u \in DOMAIN edges /\ Len(edges[u]) > 0
                   THEN gpc' = "relax" /\ cur' = u /\ ei' = 1
                   ELSE UNCHANGED <<gpc, cur, ei>>
    /\ UNCHANGED <<vertices, edges, gop, start, dist, seen, queue, stack, result>>
    /\ UNCHANGED <<pushes, last>>
    /\ UNCHANGED notGraph

\* an edge of negative weight refused as well
IndexFailsOrNegative(edge) == edge.to >= vertices \/ edge.weight < 0

\* line 151: visited[edge.to] indexes out of bounds
IndexFails(edge) == edge.to >= vertices

\* a write whenever the new value is another one
Differs(new_dist, old) == new_dist /= old

\* line 155: `new_dist < dist[edge.to]`
Shorter(new_dist, old) == new_dist < old

\* no target skipped
NeverSettled(to) == FALSE

\* lines 151-153: `if visited[edge.to] { continue; }`
Settled(to) == visited[to]

\* one turn of `for edge in edges` (lines 150-162)
DijkstraRelax ==
    /\ gpc = "relax"
    /\ LET edge == edges[cur][ei]
           new_dist == SaturatingAdd(dist[cur], edge.weight)
           next == /\ ei' = IF ei < Len(edges[cur]) THEN ei + 1 ELSE 0
                   /\ gpc' = IF ei < Len(edges[cur]) THEN "relax" ELSE "dijkstra"
       IN IF IndexFails(edge)
          THEN gpc' = "panic" /\ UNCHANGED <<dist, heap, ei>>
          ELSE IF Settled(edge.to)
          THEN next /\ UNCHANGED <<dist, heap>>
          ELSE IF Shorter(new_dist, dist[edge.to])
          THEN /\ dist' = [dist EXCEPT ![edge.to] = new_dist]
               /\ heap' = HeapPush(heap, PQItem(edge.to, new_dist))
               /\ next
          ELSE next /\ UNCHANGED <<dist, heap>>
    /\ UNCHANGED <<vertices, edges, gop, start, visited, cur, seen, queue, stack, result>>
    /\ UNCHANGED <<pushes, last>>
    /\ UNCHANGED notGraph

\* heap.pop() gives None: the loop ends and dist is returned
DijkstraReturn ==
    /\ gpc = "dijkstra"
    /\ heap = EmptyBag
    /\ gpc' = "done"
    /\ result' = dist
    /\ UNCHANGED <<vertices, edges, gop, start, dist, visited, heap, cur, ei,
                   seen, queue, stack>>
    /\ UNCHANGED <<pushes, last>>
    /\ UNCHANGED notGraph

\* Graph::bfs, lines 170-174
BfsCall(s) ==
    /\ gpc = "idle"
    /\ gop' = "bfs" /\ start' = s /\ gpc' = "bfs"
    /\ seen' = {} /\ queue' = <<s>> /\ result' = << >>
    /\ pushes' = SetToBag({s})
    /\ UNCHANGED last
    /\ UNCHANGED <<vertices, edges, dist, visited, heap, cur, ei, stack>>
    /\ UNCHANGED notGraph

\* the for loop stopping one edge early
TargetsButLast(u) ==
    IF u \in DOMAIN edges THEN [k \in 1..(Len(edges[u]) - 1) |-> edges[u][k].to] ELSE << >>

\* the destinations of the edges of u, last edge first
TargetsReversed(u) ==
    IF u \in DOMAIN edges
    THEN [k \in 1..Len(edges[u]) |-> edges[u][Len(edges[u]) + 1 - k].to]
    ELSE << >>

\* the destinations of the edges of u, in list order
Targets(u) ==
    IF u \in DOMAIN edges THEN [k \in 1..Len(edges[u]) |-> edges[u][k].to] ELSE << >>

\* every destination taken, visited or not
All(ts, vis) == ts

\* the destinations the for loop of bfs pushes: those `!visited.contains(&edge.to)`
\* holds for (line 185), visited not changing during the loop
Unvisited(ts, vis) == SelectSeq(ts, LAMBDA t : t \notin vis)

\* the new entries going to the front of the queue
PushFrontAll(q, ts) == ts \o q

\* VecDeque::push_back for each of ts in turn (line 186)
PushBackAll(q, ts) == q \o ts

\* the bag of the members of a sequence
RECURSIVE SeqToBag(_)
SeqToBag(q) == IF q = << >> THEN EmptyBag ELSE SetToBag({Head(q)}) (+) SeqToBag(Tail(q))

\* one turn of `while let Some(u) = queue.pop_front()` (lines 176-190)
BfsIter ==
    /\ gpc = "bfs"
    /\ queue /= << >>
    /\ LET u == Head(queue) IN
       IF u \in seen
       THEN /\ queue' = Tail(queue)
            /\ UNCHANGED <<seen, result, pushes>>
       ELSE /\ seen' = seen \cup {u}
            /\ result' = Append(result, u)
            /\ queue' = PushBackAll(Tail(queue), Unvisited(Targets(u), seen'))
            /\ pushes' = pushes (+) SeqToBag(Unvisited(Targets(u), seen'))
    /\ UNCHANGED last
    /\ UNCHANGED <<vertices, edges, gpc, gop, start, dist, visited, heap, cur, ei, stack>>
    /\ UNCHANGED notGraph

\* queue.pop_front() gives None: result is returned
BfsReturn ==
    /\ gpc = "bfs"
    /\ queue = << >>
    /\ gpc' = "done"
    /\ UNCHANGED <<vertices, edges, gop, start, dist, visited, heap, cur, ei,
                   seen, queue, stack, result>>
    /\ UNCHANGED <<pushes, last>>
    /\ UNCHANGED notGraph

\* Graph::dfs, lines 196-198: the first call of dfs_helper
DfsCall(s) ==
    /\ gpc = "idle"
    /\ gop' = "dfs" /\ start' = s /\ gpc' = "dfs"
    /\ seen' = {} /\ result' = << >>
    /\ stack' = <<[u |-> s, i |-> 0]>>
    /\ UNCHANGED <<vertices, edges, dist, visited, heap, cur, ei, queue>>
    /\ UNCHANGED <<pushes, last>>
    /\ UNCHANGED notGraph

\* one step of the innermost dfs_helper call: its entry (i = 0), or one turn
\* of its for loop (i >= 1), or its return
DfsStep ==
    /\ gpc = "dfs"
    /\ stack /= << >>
    /\ LET n == Len(stack)
           f == stack[n]
           pop == SubSeq(stack, 1, n - 1)
       IN IF f.i = 0
          THEN IF f.u \in seen
               THEN stack' = pop /\ UNCHANGED <<seen, result>>
               ELSE /\ seen' = seen \cup {f.u}
                    /\ result' = Append(result, f.u)
                    /\ stack' = IF f.u \in DOMAIN edges
                                THEN [stack EXCEPT ![n].i = 1]
                                ELSE pop
          ELSE /\ UNCHANGED <<seen, result>>
               /\ stack' = IF f.i > Len(Targets(f.u))
                           THEN pop
                           ELSE Append([stack EXCEPT ![n].i = f.i + 1],
                                       [u |-> Targets(f.u)[f.i], i |-> 0])
    /\ UNCHANGED <<vertices, edges, gpc, gop, start, dist, visited, heap, cur, ei, queue>>
    /\ UNCHANGED <<pushes, last>>
    /\ UNCHANGED notGraph

\* the first dfs_helper call has returned: result is returned
DfsReturn ==
    /\ gpc = "dfs"
    /\ stack = << >>
    /\ gpc' = "done"
    /\ UNCHANGED <<vertices, edges, gop, start, dist, visited, heap, cur, ei,
                   seen, queue, stack, result>>
    /\ UNCHANGED <<pushes, last>>
    /\ UNCHANGED notGraph

NextDijkstra ==
    \/ \E from \in 0..(vertices - 1), to \in 0..(vertices - 1), w \in Weights :
          AddEdge(from, to, w)
    \/ \E s \in 0..vertices : DijkstraCall(s)
    \/ DijkstraPop
    \/ DijkstraRelax
    \/ DijkstraReturn

\* a graph is built and dijkstra is called on it
SpecDijkstra == InitGraph /\ [][NextDijkstra]_vars

NextTraverse ==
    \/ \E from \in 0..(vertices - 1), to \in 0..(vertices - 1), w \in Weights :
          AddEdge(from, to, w)
    \/ \E s \in 0..vertices : BfsCall(s)
    \/ BfsIter
    \/ BfsReturn
    \/ \E s \in 0..vertices : DfsCall(s)
    \/ DfsStep
    \/ DfsReturn

\* edge weights that are not positive
SignedWeights == {-1, 0}

\* a graph on three vertices built by three add_edge calls, in which the path
\* from 0 to 1 through 2 is shorter than the edge from 0 to 1
DetourVertices == 3
DetourEdges ==
    PushEdge(PushEdge(PushEdge(<< >>, 0, Edge(1, 2)), 0, Edge(2, 3)), 2, Edge(1, -2))

\* a graph on three vertices built by two add_edge calls, in which the least
\* i32 is a weight
FloorEdges == PushEdge(PushEdge(<< >>, 0, Edge(1, I32_MIN)), 1, Edge(2, -1))

InitSigned ==
    /\ \/ vertices = NumVertices /\ edges = << >>
       \/ vertices = ScenarioVertices /\ edges = ScenarioEdges
       \/ vertices = ScenarioVertices /\ edges = CyclicEdges
       \/ vertices = DetourVertices /\ edges = DetourEdges
       \/ vertices = DetourVertices /\ edges = FloorEdges
    /\ GraphIdle
    /\ BstNew
    /\ SortIdle
    /\ DpIdle

NextSigned ==
    \/ \E from \in 0..(vertices - 1), to \in 0..(vertices - 1), w \in SignedWeights :
          AddEdge(from, to, w)
    \/ \E s \in 0..vertices : DijkstraCall(s)
    \/ DijkstraPop
    \/ DijkstraRelax
    \/ DijkstraReturn

\* a graph with weights of either sign is built and dijkstra is called on it;
\* a run that has started goes on: the program has one thread and no step waits
SpecSigned == InitSigned /\ [][NextSigned]_vars /\ WF_vars(NextSigned)

\* the weights the model gives to edges between arbitrary indices
BuildWeights == {-1, 1}

NextBuild ==
    \E from \in 0..vertices, to \in 0..vertices, w \in BuildWeights : AddEdge(from, to, w)

\* a graph is built by add_edge calls with indices inside and outside 0..vertices
SpecBuild == InitGraph /\ [][NextBuild]_vars

\* a graph is built and bfs or dfs is called on it
SpecTraverse == InitGraph /\ [][NextTraverse]_vars

\* ======================= BST =======================

None == << >>
Some(x) == <<x>>

\* struct TreeNode
TreeNode(value, left, right) == [value |-> value, left |-> left, right |-> right]

\* Ordering::Equal sending the new node to the right subtree
RECURSIVE insert_recursive_dup_right(_, _)
insert_recursive_dup_right(current, new_node) ==
    IF new_node.value < current.value
    THEN IF current.left = None
         THEN [current EXCEPT !.left = Some(new_node)]
         ELSE [current EXCEPT !.left = Some(insert_recursive_dup_right(current.left[1], new_node))]
    ELSE IF current.right = None
         THEN [current EXCEPT !.right = Some(new_node)]
         ELSE [current EXCEPT !.right = Some(insert_recursive_dup_right(current.right[1], new_node))]

\* Ordering::Equal putting the new node in the place of the current one
RECURSIVE insert_recursive_replace(_, _)
insert_recursive_replace(current, new_node) ==
    IF new_node.value < current.value
    THEN IF current.left = None
         THEN [current EXCEPT !.left = Some(new_node)]
         ELSE [current EXCEPT !.left = Some(insert_recursive_replace(current.left[1], new_node))]
    ELSE IF new_node.value > current.value
    THEN IF current.right = None
         THEN [current EXCEPT !.right = Some(new_node)]
         ELSE [current EXCEPT !.right = Some(insert_recursive_replace(current.right[1], new_node))]
    ELSE new_node

\* Ordering::Less descending to the right and Ordering::Greater to the left
RECURSIVE insert_recursive_mirrored(_, _)
insert_recursive_mirrored(current, new_node) ==
    IF new_node.value > current.value
    THEN IF current.left = None
         THEN [current EXCEPT !.left = Some(new_node)]
         ELSE [current EXCEPT !.left = Some(insert_recursive_mirrored(current.left[1], new_node))]
    ELSE IF new_node.value < current.value
    THEN IF current.right = None
         THEN [current EXCEPT !.right = Some(new_node)]
         ELSE [current EXCEPT !.right = Some(insert_recursive_mirrored(current.right[1], new_node))]
    ELSE current

\* BST::insert_recursive: the node current after the call
RECURSIVE insert_recursive(_, _)
insert_recursive(current, new_node) ==
    IF new_node.value < current.value
    THEN IF current.left = None
         THEN [current EXCEPT !.left = Some(new_node)]
         ELSE [current EXCEPT !.left = Some(insert_recursive(current.left[1], new_node))]
    ELSE IF new_node.value > current.value
    THEN IF current.right = None
         THEN [current EXCEPT !.right = Some(new_node)]
         ELSE [current EXCEPT !.right = Some(insert_recursive(current.right[1], new_node))]
    ELSE current

\* the new node put on top, the tree it found hung below it
insert_as_root(r, value) ==
    IF r = None THEN Some(TreeNode(value, None, None))
    ELSE IF value < r[1].value THEN Some(TreeNode(value, None, r))
    ELSE IF value > r[1].value THEN Some(TreeNode(value, r, None))
    ELSE r

\* BST::insert: the root after the call
insert(r, value) ==
    LET new_node == TreeNode(value, None, None)
    IN IF r = None THEN Some(new_node) ELSE Some(insert_recursive(r[1], new_node))

\* the descent with Less and Greater exchanged
RECURSIVE find_recursive_swapped(_, _)
find_recursive_swapped(node, value) ==
    IF node = None THEN FALSE
    ELSE IF value = node[1].value THEN TRUE
    ELSE IF value < node[1].value THEN find_recursive_swapped(node[1].right, value)
    ELSE find_recursive_swapped(node[1].left, value)

\* BST::find_recursive
RECURSIVE find_recursive(_, _)
find_recursive(node, value) ==
    IF node = None THEN FALSE
    ELSE IF value = node[1].value THEN TRUE
    ELSE IF value < node[1].value THEN find_recursive(node[1].left, value)
    ELSE find_recursive(node[1].right, value)

\* BST::find
find(r, value) == find_recursive(r, value)

\* BST::in_order_recursive: result after the call
RECURSIVE in_order_recursive(_, _)
in_order_recursive(node, res) ==
    IF node = None THEN res
    ELSE in_order_recursive(node[1].right,
             Append(in_order_recursive(node[1].left, res), node[1].value))

\* BST::in_order
in_order(r) == in_order_recursive(r, << >>)

Insert(value) ==
    /\ ninserts < MaxInserts
    /\ root' = insert(root, value)
    /\ inserted' = inserted \cup {value}
    /\ ninserts' = ninserts + 1
    /\ bres' = NoQuery
    /\ UNCHANGED notBst

\* a find that inserts the value it did not find
FindOrInsert(value) ==
    /\ bres' = [op |-> "find", arg |-> value, ret |-> find(root, value)]
    /\ root' = insert(root, value)
    /\ inserted' = inserted \cup {value}
    /\ UNCHANGED ninserts
    /\ UNCHANGED notBst

Find(value) ==
    /\ bres' = [op |-> "find", arg |-> value, ret |-> find(root, value)]
    /\ UNCHANGED <<root, inserted, ninserts>>
    /\ UNCHANGED notBst

InOrder ==
    /\ bres' = [op |-> "in_order", ret |-> in_order(root)]
    /\ UNCHANGED <<root, inserted, ninserts>>
    /\ UNCHANGED notBst

InitBST ==
    /\ vertices = 0 /\ edges = << >> /\ GraphIdle
    /\ BstNew
    /\ SortIdle
    /\ DpIdle

NextBST ==
       \/ \E v \in 1..MaxVal : Insert(v)
       \/ \E v \in 0..(MaxVal + 1) : Find(v)
       \/ InOrder

SpecBST == InitBST /\ [][NextBST]_vars

\* ======================= sorting =======================

\* an element of type T: a key, which Ord compares, and a tag, which it does
\* not (the position the element had in the input)
Elem(key, tag) == <<key, tag>>

\* T::lt and T::le
Lt(x, y) == x[1] < y[1]
Le(x, y) == x[1] <= y[1]

\* arr[i] with the 0-based index of the source
At(a, i) == a[i + 1]

\* slice::swap
Swap(a, i, j) == [a EXCEPT ![i + 1] = a[j + 1], ![j + 1] = a[i + 1]]

\* the for loop of partition from j on, then the final swap: the slice and
\* the index returned
RECURSIVE partition_loop(_, _, _, _, _)
partition_loop(a, pivot, i, j, high) ==
    IF j >= high
    THEN [arr |-> Swap(a, i, high), p |-> i]
    ELSE IF Lt(At(a, j), pivot)
    THEN partition_loop(Swap(a, i, j), pivot, i + 1, j + 1, high)
    ELSE partition_loop(a, pivot, i, j + 1, high)

\* the scan starting one element late
partition_skip_first(a, low, high) ==
    partition_loop(a, At(a, high), low, low + 1, high)

\* the pivot taken from the low end of the range
partition_pivot_low(a, low, high) ==
    partition_loop(a, At(a, low), low, low, high)

\* partition (lines 237-249)
partition(a, low, high) ==
    partition_loop(a, At(a, high), low, low, high)

Frame(low, high) == [low |-> low, high |-> high, pc |-> "entry", p |-> 0]

\* the first recursive call made whatever p is
AlwaysLeftPart(p) == TRUE

\* line 230: `if p > 0`, the guard of quick_sort_helper(arr, low, p - 1)
HasLeftPart(p) == p > 0

\* quick_sort (lines 219-225)
QuickSortCall ==
    /\ spc = "idle"
    /\ sop' = "quick_sort"
    /\ IF Len(arr) <= 1
       THEN spc' = "done" /\ UNCHANGED qstack
       ELSE spc' = "qs" /\ qstack' = <<Frame(0, Len(arr) - 1)>>
    /\ UNCHANGED <<arr, input, sres>>
    /\ UNCHANGED notSort

\* one step of the innermost quick_sort_helper call (lines 227-235): its test
\* and partition and first recursive call, its second recursive call, or its return
QuickSortHelperStep ==
    /\ spc = "qs"
    /\ qstack /= << >>
    /\ LET n == Len(qstack)
           f == qstack[n]
           pop == SubSeq(qstack, 1, n - 1)
       IN CASE f.pc = "entry" ->
                 IF ~(f.low < f.high)
                 THEN qstack' = pop /\ UNCHANGED <<arr, spc>>
                 ELSE IF f.high >= Len(arr)
                 THEN \* arr[high] indexes out of bounds
                      spc' = "panic" /\ UNCHANGED <<arr, qstack>>
                 ELSE LET r == partition(arr, f.low, f.high)
                      IN /\ arr' = r.arr
                         /\ UNCHANGED spc
                         /\ qstack' =
                               IF HasLeftPart(r.p)
                               THEN Append([qstack EXCEPT ![n].pc = "second", ![n].p = r.p],
                                           Frame(f.low, r.p - 1))
                               ELSE Append([qstack EXCEPT ![n].pc = "return", ![n].p = r.p],
                                           Frame(r.p + 1, f.high))
            [] f.pc = "second" ->
                 /\ qstack' = Append([qstack EXCEPT ![n].pc = "return"],
                                     Frame(f.p + 1, f.high))
                 /\ UNCHANGED <<arr, spc>>
            [] f.pc = "return" ->
                 qstack' = pop /\ UNCHANGED <<arr, spc>>
    /\ UNCHANGED <<input, sop, sres>>
    /\ UNCHANGED notSort

\* the first quick_sort_helper call has returned
QuickSortReturn ==
    /\ spc = "qs"
    /\ qstack = << >>
    /\ spc' = "done"
    /\ UNCHANGED <<arr, input, sop, qstack, sres>>
    /\ UNCHANGED notSort

\* the while loop taking the right element on a tie
RECURSIVE merge_right_on_tie(_, _)
merge_right_on_tie(left, right) ==
    IF left /= << >> /\ right /= << >>
    THEN IF Lt(Head(left), Head(right))
         THEN <<Head(left)>> \o merge_right_on_tie(Tail(left), right)
         ELSE <<Head(right)>> \o merge_right_on_tie(left, Tail(right))
    ELSE left \o right

\* merge (lines 263-280): the while loop on what is left of both sides, then
\* the two extend_from_slice
RECURSIVE merge(_, _)
merge(left, right) ==
    IF left /= << >> /\ right /= << >>
    THEN IF Le(Head(left), Head(right))
         THEN <<Head(left)>> \o merge(Tail(left), right)
         ELSE <<Head(right)>> \o merge(left, Tail(right))
    ELSE left \o right

\* merge_sort (lines 251-261)
RECURSIVE merge_sort(_)
merge_sort(a) ==
    IF Len(a) <= 1
    THEN a
    ELSE LET mid == Len(a) \div 2
             left == merge_sort(SubSeq(a, 1, mid))
             right == merge_sort(SubSeq(a, mid + 1, Len(a)))
         IN merge(left, right)

MergeSort ==
    /\ spc = "idle"
    /\ sop' = "merge_sort"
    /\ sres' = merge_sort(arr)
    /\ spc' = "done"
    /\ UNCHANGED <<arr, input, qstack>>
    /\ UNCHANGED notSort

\* the slice of tests::test_quick_sort
TestSlice == <<3, 1, 4, 1, 5, 9, 2, 6>>

KeySeqs == UNION {[1..n -> 1..MaxKey] : n \in 0..MaxLen}

Tagged(keys) == [i \in 1..Len(keys) |-> Elem(keys[i], i)]

InitSort ==
    /\ vertices = 0 /\ edges = << >> /\ GraphIdle
    /\ BstNew
    /\ \E keys \in KeySeqs \cup {TestSlice} :
          /\ input = Tagged(keys)
          /\ arr = Tagged(keys)
    /\ spc = "idle" /\ sop = "none" /\ qstack = << >> /\ sres = << >>
    /\ DpIdle

NextSort ==
    \/ QuickSortCall
    \/ QuickSortHelperStep
    \/ QuickSortReturn
    \/ MergeSort

SpecSort == InitSort /\ [][NextSort]_vars

\* a call that has started runs on: the program has one thread and no step waits
SpecSortFair == SpecSort /\ WF_vars(NextSort)

\* ======================= dynamic programming =======================

\* char::len_utf8: the bytes a code point takes in a str
len_utf8(c) == IF c < 128 THEN 1 ELSE IF c < 2048 THEN 2 ELSE IF c < 65536 THEN 3 ELSE 4

\* str::len: the length in bytes of the str whose chars are s
RECURSIVE str_len(_)
str_len(s) == IF s = << >> THEN 0 ELSE len_utf8(Head(s)) + str_len(Tail(s))

\* vec![vec![0; n + 1]; m + 1]
ZeroTable(m, n) == [i \in 0..m |-> [j \in 0..n |-> 0]]

Max2(a, b) == IF a >= b THEN a ELSE b
Min2(a, b) == IF a <= b THEN a ELSE b

\* the position after cell (di, dj) of `for i in 1..=m { for j in lo..=n`:
\* the next cell, or the end of the loops
Advance(m, n, lo, after) ==
    IF dj < n
    THEN dj' = dj + 1 /\ UNCHANGED <<di, dpc>>
    ELSE IF di < m
    THEN di' = di + 1 /\ dj' = lo /\ UNCHANGED dpc
    ELSE dpc' = after /\ di' = m /\ dj' = n

\* lcs, lines 285-289 and 302-303 when the loops have no cell to fill
LcsCall ==
    /\ dpc = "idle"
    /\ dop' = "lcs"
    /\ LET m == str_len(s1)
           n == str_len(s2)
       IN /\ dp' = ZeroTable(m, n)
          /\ IF m >= 1 /\ n >= 1
             THEN dpc' = "fill" /\ di' = 1 /\ dj' = 1
             ELSE dpc' = "back" /\ di' = m /\ dj' = n
    /\ dres' = << >>
    /\ UNCHANGED <<s1, s2, kweights, kvalues, kcap>>
    /\ UNCHANGED notDp

\* lcs, lines 293-297: the value of cell (i, j)
LcsCell(i, j) ==
    IF s1[i] = s2[j] THEN dp[i - 1][j - 1] + 1 ELSE Max2(dp[i - 1][j], dp[i][j - 1])

\* lcs, one turn of the inner loop (lines 291-299)
LcsFill ==
    /\ dpc = "fill" /\ dop = "lcs"
    /\ IF di > Len(s1) \/ dj > Len(s2)
       THEN \* s1[i - 1] or s2[j - 1] indexes out of bounds
            dpc' = "panic" /\ UNCHANGED <<dp, di, dj>>
       ELSE /\ dp' = [dp EXCEPT ![di][dj] = LcsCell(di, dj)]
            /\ Advance(str_len(s1), str_len(s2), 1, "back")
    /\ UNCHANGED <<s1, s2, kweights, kvalues, kcap, dop, dres>>
    /\ UNCHANGED notDp

\* the walk going up also when the two cells are equal
GoesUpOnTie(up, left) == up >= left

\* lcs, line 310: `dp[i - 1][j] > dp[i][j - 1]`, on which the walk decrements i
GoesUp(up, left) == up > left

\* lcs, one turn of the backward walk (lines 305-315)
LcsBack ==
    /\ dpc = "back" /\ dop = "lcs"
    /\ di > 0 /\ dj > 0
    /\ IF di > Len(s1) \/ dj > Len(s2)
       THEN dpc' = "panic" /\ UNCHANGED <<di, dj, dres>>
       ELSE /\ UNCHANGED dpc
            /\ IF s1[di] = s2[dj]
               THEN dres' = <<s1[di]>> \o dres /\ di' = di - 1 /\ dj' = dj - 1
               ELSE IF GoesUp(dp[di - 1][dj], dp[di][dj - 1])
               THEN di' = di - 1 /\ UNCHANGED <<dj, dres>>
               ELSE dj' = dj - 1 /\ UNCHANGED <<di, dres>>
    /\ UNCHANGED <<s1, s2, kweights, kvalues, kcap, dop, dp>>
    /\ UNCHANGED notDp

\* lcs, the walk has reached row 0 or column 0: result is returned
LcsReturn ==
    /\ dpc = "back" /\ dop = "lcs"
    /\ ~(di > 0 /\ dj > 0)
    /\ dpc' = "done"
    /\ UNCHANGED <<s1, s2, kweights, kvalues, kcap, dop, dp, di, dj, dres>>
    /\ UNCHANGED notDp

\* edit_distance, lines 321-332
EditDistanceCall ==
    /\ dpc = "idle"
    /\ dop' = "edit_distance"
    /\ LET m == str_len(s1)
           n == str_len(s2)
       IN /\ dp' = [i \in 0..m |-> [j \in 0..n |->
                       IF j = 0 THEN i ELSE IF i = 0 THEN j ELSE 0]]
          /\ IF m >= 1 /\ n >= 1
             THEN dpc' = "fill" /\ di' = 1 /\ dj' = 1
             ELSE dpc' = "back" /\ di' = m /\ dj' = n
    /\ dres' = << >>
    /\ UNCHANGED <<s1, s2, kweights, kvalues, kcap>>
    /\ UNCHANGED notDp

\* edit_distance, lines 336-340: the value of cell (i, j)
EditCell(i, j) ==
    IF s1[i] = s2[j]
    THEN dp[i - 1][j - 1]
    ELSE 1 + Min2(Min2(dp[i - 1][j], dp[i][j - 1]), dp[i - 1][j - 1])

\* edit_distance, one turn of the inner loop (lines 334-342)
EditDistanceFill ==
    /\ dpc = "fill" /\ dop = "edit_distance"
    /\ IF di > Len(s1) \/ dj > Len(s2)
       THEN \* s1[i - 1] or s2[j - 1] indexes out of bounds
            dpc' = "panic" /\ UNCHANGED <<dp, di, dj>>
       ELSE /\ dp' = [dp EXCEPT ![di][dj] = EditCell(di, dj)]
            /\ Advance(str_len(s1), str_len(s2), 1, "back")
    /\ UNCHANGED <<s1, s2, kweights, kvalues, kcap, dop, dres>>
    /\ UNCHANGED notDp

\* edit_distance, line 344: dp[m][n] is returned
EditDistanceReturn ==
    /\ dpc = "back" /\ dop = "edit_distance"
    /\ dpc' = "done"
    /\ dres' = dp[str_len(s1)][str_len(s2)]
    /\ UNCHANGED <<s1, s2, kweights, kvalues, kcap, dop, dp, di, dj>>
    /\ UNCHANGED notDp

\* i32 addition when it overflows in a build without overflow checks
WrappingAdd(a, b) ==
    IF b > 0 /\ a > I32_MAX - b THEN ((a - (I32_MAX - b)) - 1) + I32_MIN
    ELSE IF b < 0 /\ a < I32_MIN - b THEN ((a - (I32_MIN - b)) + I32_MAX) + 1
    ELSE a + b

Overflows(a, b) == (b > 0 /\ a > I32_MAX - b) \/ (b < 0 /\ a < I32_MIN - b)

\* knapsack, lines 348-349
KnapsackCall ==
    /\ dpc = "idle"
    /\ dop' = "knapsack"
    /\ dp' = ZeroTable(Len(kweights), kcap)
    /\ IF Len(kweights) >= 1
       THEN dpc' = "fill" /\ di' = 1 /\ dj' = 0
       ELSE dpc' = "back" /\ di' = 0 /\ dj' = kcap
    /\ dres' = << >>
    /\ UNCHANGED <<s1, s2, kweights, kvalues, kcap>>
    /\ UNCHANGED notDp

\* the item always taken when it fits
KnapsackCellGreedy(i, w, include) ==
    IF kweights[i] <= w THEN include ELSE dp[i - 1][w]

\* knapsack, lines 353-357: the value of cell (i, w), include being the sum
\* dp[i - 1][w - weights[i - 1]] + values[i - 1]
KnapsackCell(i, w, include) ==
    IF kweights[i] <= w THEN Max2(dp[i - 1][w], include) ELSE dp[i - 1][w]

\* knapsack, one turn of the inner loop (lines 351-359); an overflowing sum
\* panics in a build with overflow checks and wraps in one without
KnapsackFill ==
    /\ dpc = "fill" /\ dop = "knapsack"
    /\ \E checks \in BOOLEAN :
        IF kweights[di] <= dj /\ di > Len(kvalues)
        THEN \* values[i - 1] indexes out of bounds
             dpc' = "panic" /\ UNCHANGED <<dp, di, dj>>
        ELSE IF kweights[di] <= dj /\ checks
                   /\ Overflows(dp[di - 1][dj - kweights[di]], kvalues[di])
        THEN dpc' = "panic" /\ UNCHANGED <<dp, di, dj>>
        ELSE /\ dp' = [dp EXCEPT ![di][dj] =
                         KnapsackCell(di, dj,
                             IF kweights[di] <= dj
                             THEN WrappingAdd(dp[di - 1][dj - kweights[di]], kvalues[di])
                             ELSE 0)]
             /\ Advance(Len(kweights), kcap, 0, "back")
    /\ UNCHANGED <<s1, s2, kweights, kvalues, kcap, dop, dres>>
    /\ UNCHANGED notDp

\* knapsack, line 361: dp[n][capacity] is returned
KnapsackReturn ==
    /\ dpc = "back" /\ dop = "knapsack"
    /\ dpc' = "done"
    /\ dres' = dp[Len(kweights)][kcap]
    /\ UNCHANGED <<s1, s2, kweights, kvalues, kcap, dop, dp, di, dj>>
    /\ UNCHANGED notDp

\* the chars the model draws strings from: 'A', 'B' and 'e' with acute accent
Alphabet == {65, 66, 233}

Strings == UNION {[1..n -> Alphabet] : n \in 0..MaxStrLen}

\* "ABCBDAB", "BDCABA", "kitten", "sitting"
Str_ABCBDAB == <<65, 66, 67, 66, 68, 65, 66>>
Str_BDCABA == <<66, 68, 67, 65, 66, 65>>
Str_kitten == <<107, 105, 116, 116, 101, 110>>
Str_sitting == <<115, 105, 116, 116, 105, 110, 103>>

InitStr ==
    /\ vertices = 0 /\ edges = << >> /\ GraphIdle
    /\ BstNew
    /\ SortIdle
    /\ \/ s1 \in Strings /\ s2 \in Strings
       \/ s1 = Str_ABCBDAB /\ s2 = Str_BDCABA
       \/ s1 = Str_kitten /\ s2 = Str_sitting
    /\ kweights = << >> /\ kvalues = << >> /\ kcap = 0
    /\ DpLocalsIdle

NextStr ==
    \/ LcsCall
    \/ LcsFill
    \/ LcsBack
    \/ LcsReturn
    \/ EditDistanceCall
    \/ EditDistanceFill
    \/ EditDistanceReturn

SpecStr == InitStr /\ [][NextStr]_vars

\* the weights (usize) and values (i32) the model draws items from
ItemWeights == {0, 1, 2}
ItemValues == {-1, 1, I32_MAX}

Tuples(S, lo, hi) == UNION {[1..n -> S] : n \in lo..hi}

InitKnapsack ==
    /\ vertices = 0 /\ edges = << >> /\ GraphIdle
    /\ BstNew
    /\ SortIdle
    /\ s1 = << >> /\ s2 = << >>
    /\ \/ /\ kweights \in Tuples(ItemWeights, 0, MaxItems)
          /\ kvalues \in Tuples(ItemValues, Max2(0, Len(kweights) - 1),
                                Min2(MaxItems, Len(kweights) + 1))
          /\ kcap \in 0..MaxCap
       \/ kweights = <<1, 3, 4, 5>> /\ kvalues = <<1, 4, 5, 7>> /\ kcap = 7
    /\ DpLocalsIdle

NextKnapsack ==
    \/ KnapsackCall
    \/ KnapsackFill
    \/ KnapsackReturn

SpecKnapsack == InitKnapsack /\ [][NextKnapsack]_vars

\* a graph that may hold edges to a vertex outside 0..vertices is built and
\* dijkstra is called on it with a source that may be outside as well, or
\* knapsack is called with weights and values whose lengths may differ
InitPrecond == InitGraph \/ InitKnapsack

NextPrecond ==
    \/ \E from \in 0..(vertices - 1), to \in 0..vertices : AddEdge(from, to, 1)
    \/ \E s \in 0..vertices : DijkstraCall(s)
    \/ DijkstraPop
    \/ DijkstraRelax
    \/ DijkstraReturn
    \/ KnapsackCall
    \/ KnapsackFill
    \/ KnapsackReturn

SpecPrecond == InitPrecond /\ [][NextPrecond]_vars

\* ======================= reference definitions =======================

\* an exact non-negative integer hi * I32_MAX + lo with 0 <= lo < I32_MAX,
\* for sums that an i32 cannot hold
Big(x) == IF x = I32_MAX THEN <<1, 0>> ELSE <<0, x>>
BigAdd(a, b) ==
    IF a[2] >= I32_MAX - b[2]
    THEN <<a[1] + b[1] + 1, a[2] - (I32_MAX - b[2])>>
    ELSE <<a[1] + b[1], a[2] + b[2]>>
BigLess(a, b) == a[1] < b[1] \/ (a[1] = b[1] /\ a[2] < b[2])

\* an exact sum cut off at i32::MAX
Saturated(a) == IF BigLess(a, Big(I32_MAX)) THEN a[2] ELSE I32_MAX

NoPath == <<-1, -1>>

\* every vertex an edge leaves from or leads to, and those of 0..vertices
AllVertices ==
    (0..(vertices - 1)) \cup DOMAIN edges
        \cup UNION {{edges[u][k].to : k \in 1..Len(edges[u])} : u \in DOMAIN edges}

\* the vertices reachable from a vertex of S along edges (S included)
RECURSIVE ReachFrom(_)
ReachFrom(S) ==
    LET T == S \cup UNION {{edges[u][k].to : k \in 1..Len(edges[u])} :
                              u \in S \cap DOMAIN edges}
    IN IF T = S THEN S ELSE ReachFrom(T)

Reachable(s) == ReachFrom({s})

NonNegativeWeights ==
    \A u \in DOMAIN edges : \A k \in 1..Len(edges[u]) : edges[u][k].weight >= 0

\* the minimum of a non-empty set of exact sums
BigMin(S) == CHOOSE a \in S : \A b \in S : ~BigLess(b, a)

\* one more edge allowed: from D, the minimum exact path sums over the paths
\* of at most some number of edges (NoPath where there is none), those over
\* the paths of at most one edge more
OneMoreEdge(D) ==
    [v \in DOMAIN D |->
        LET C == (IF D[v] = NoPath THEN {} ELSE {D[v]})
                 \cup UNION {{BigAdd(D[u], Big(edges[u][j].weight)) :
                                 j \in {y \in 1..Len(edges[u]) : edges[u][y].to = v}} :
                             u \in {x \in DOMAIN edges : D[x] /= NoPath}}
        IN IF C = {} THEN NoPath ELSE BigMin(C)]

RECURSIVE MinPathSum(_, _)
MinPathSum(D, k) ==
    IF k = 0 THEN D
    ELSE LET E == OneMoreEdge(D)
         IN IF E = D THEN D ELSE MinPathSum(E, k - 1)

\* the true shortest distances from source, the weights being non-negative:
\* the minimum exact sum of weights over all paths (no shortest path has more
\* edges than there are vertices)
TrueDist(source) ==
    MinPathSum([v \in AllVertices |-> IF v = source THEN <<0, 0>> ELSE NoPath],
               Cardinality(AllVertices))

DijkstraDone == gpc = "done" /\ gop = "dijkstra"

Range(f) == {f[x] : x \in DOMAIN f}

NoRepeat(q) == \A i, j \in DOMAIN q : i /= j => q[i] /= q[j]

IsScenario == vertices = ScenarioVertices /\ edges = ScenarioEdges

\* ======================= claims =======================

\* C1 as stated: with non-negative weights dijkstra(source) returns
\* dist[source] = 0 and, for every reachable v, the minimum sum of edge weights
\* over all paths from source to v; the scenario graph gives [0, 2, 1, 3].
C1_Original ==
    (DijkstraDone /\ NonNegativeWeights) =>
        /\ result[start] = 0
        /\ LET T == TrueDist(start)
           IN \A v \in Reachable(start) : Big(result[v]) = T[v]
        /\ (IsScenario /\ start = 0) =>
               result = [v \in 0..3 |-> <<0, 2, 1, 3>>[v + 1]]

\* C1 amended: with non-negative weights dijkstra(source) returns
\* dist[source] = 0 and, for every reachable v, the minimum path sum when it is
\* below i32::MAX and i32::MAX otherwise; the scenario graph gives [0, 2, 1, 3].
C1_ShortestSaturated ==
    (DijkstraDone /\ NonNegativeWeights) =>
        /\ result[start] = 0
        /\ LET T == TrueDist(start)
           IN \A v \in Reachable(start) : result[v] = Saturated(T[v])
        /\ (IsScenario /\ start = 0) =>
               result = [v \in 0..3 |-> <<0, 2, 1, 3>>[v + 1]]

\* a run that returned with a reachable vertex whose minimum path sum exceeds i32::MAX
C1_Witness ==
    /\ DijkstraDone /\ NonNegativeWeights
    /\ LET T == TrueDist(start)
       IN \E v \in Reachable(start) : BigLess(Big(I32_MAX), T[v])

\* C4: bfs(start) and dfs(start) each return exactly the vertices reachable
\* from start (start included), none of them twice, cycles and self-loops included.
C4_TraversalReachable ==
    (gpc = "done" /\ gop \in {"bfs", "dfs"}) =>
        /\ Range(result) = Reachable(start)
        /\ NoRepeat(result)

\* a dfs that returned on a graph with a cycle through start and a self-loop
C4_Witness ==
    /\ gpc = "done" /\ gop = "dfs" /\ Len(result) = 4
    /\ \E u \in DOMAIN edges : u /= start /\ start \in Range(Targets(u))
                                  /\ u \in Reachable(start)
    /\ \E u \in DOMAIN edges : u \in Range(Targets(u))

\* C10: in the table dijkstra returns every vertex not reachable from source
\* holds i32::MAX, and with non-negative weights no reachable vertex whose true
\* shortest distance is below i32::MAX holds i32::MAX.
C10_SentinelIffUnreachable ==
    DijkstraDone =>
        LET R == Reachable(start)
            T == TrueDist(start)
        IN \A v \in 0..(vertices - 1) :
              /\ v \notin R => result[v] = I32_MAX
              /\ (NonNegativeWeights /\ v \in R /\ BigLess(T[v], Big(I32_MAX)))
                    => result[v] /= I32_MAX

\* a run that returned with one vertex unreachable and another, not the source,
\* reached at a distance below i32::MAX
C10_Witness ==
    /\ DijkstraDone
    /\ \E v \in 0..(vertices - 1) : v \notin Reachable(start)
    /\ \E v \in Reachable(start) \ {start} : result[v] < I32_MAX

\* the values of S in ascending order
RECURSIVE Ascending(_)
Ascending(S) ==
    IF S = {} THEN << >>
    ELSE LET lo == CHOOSE x \in S : \A y \in S : x <= y
         IN <<lo>> \o Ascending(S \ {lo})

\* C2: after any sequence of insert calls in_order() is strictly ascending,
\* without duplicates, and holds exactly the distinct values inserted; so it
\* depends on the set of values inserted only, not on their order.
C2_InOrderSortedDistinct ==
    bres.op = "in_order" =>
        /\ \A i, j \in DOMAIN bres.ret : i < j => bres.ret[i] < bres.ret[j]
        /\ Range(bres.ret) = inserted
        /\ bres.ret = Ascending(inserted)

\* in_order after a descending and repeating run of inserts of three values
C2_Witness ==
    /\ bres.op = "in_order" /\ Len(bres.ret) = 3 /\ ninserts = 4
    /\ root[1].left /= None /\ root[1].left[1].left /= None

\* C3: after any sequence of insert calls find(v) is true for every value
\* inserted at some point and false for every value never inserted.
C3_FindIffInserted ==
    bres.op = "find" => (bres.ret <=> bres.arg \in inserted)

\* find returned true for a value two levels below the root
C3_Witness ==
    /\ bres.op = "find" /\ bres.ret
    /\ root[1].right /= None /\ root[1].right[1].left /= None
    /\ bres.arg = root[1].right[1].left[1].value

Sorted(a) == \A i, j \in DOMAIN a : i < j => Le(a[i], a[j])

\* a holds the elements of b, each as often (the tags tell the elements apart)
Permutation(a, b) == Len(a) = Len(b) /\ Range(a) = Range(b)

QuickSortDone == sop = "quick_sort" /\ spc = "done"

\* C5: on every slice (empty, one element, sorted, reverse sorted, with
\* repeated values) quick_sort terminates and leaves the slice in
\* non-decreasing order with the same elements as before the call.
C5_QuickSortSorts ==
    /\ [](QuickSortDone => (Sorted(arr) /\ Permutation(arr, input)))
    /\ [](sop = "quick_sort" => <>QuickSortDone)

\* quick_sort returned on a reverse sorted slice with a repeated value
C5_Witness ==
    /\ QuickSortDone /\ Len(input) = 4 /\ arr /= input
    /\ \A i \in 1..3 : Le(input[i + 1], input[i])
    /\ \E i \in 1..3 : input[i][1] = input[i + 1][1]

\* the elements of a set in ascending order of key and, among equal keys, of tag
RECURSIVE ByKeyThenTag(_)
ByKeyThenTag(S) ==
    IF S = {} THEN << >>
    ELSE LET lo == CHOOSE x \in S : \A y \in S :
                       x[1] < y[1] \/ (x[1] = y[1] /\ x[2] <= y[2])
         IN <<lo>> \o ByKeyThenTag(S \ {lo})

\* what a stable sort returns: equal keys keep the order of the input
StableSorted(a) == ByKeyThenTag(Range(a))

MergeSortDone == sop = "merge_sort" /\ spc = "done"

\* C6: merge_sort returns what a stable reference sort returns: sorted, a
\* permutation of the input, equal elements in their input order; a sorted
\* input is returned unchanged.
C6_MergeSortStable ==
    MergeSortDone =>
        /\ sres = StableSorted(input)
        /\ Sorted(sres) /\ Permutation(sres, input)
        /\ Sorted(input) => sres = input

\* merge_sort returned on an unsorted slice in which a key occurs in both halves
C6_Witness ==
    /\ MergeSortDone /\ Len(input) = 4 /\ ~Sorted(input)
    /\ \E i \in 1..2, j \in 3..4 : input[i][1] = input[j][1]

\* x is a subsequence of y
RECURSIVE IsSubseq(_, _)
IsSubseq(x, y) ==
    IF x = << >> THEN TRUE
    ELSE IF y = << >> THEN FALSE
    ELSE IF Head(x) = Head(y) THEN IsSubseq(Tail(x), Tail(y))
    ELSE IsSubseq(x, Tail(y))

\* the chars of s at the positions of P, in order
RECURSIVE Pick(_, _)
Pick(s, P) ==
    IF P = {} THEN << >>
    ELSE LET lo == CHOOSE i \in P : \A j \in P : i <= j
         IN <<s[lo]>> \o Pick(s, P \ {lo})

\* the maximum length of a common subsequence of a and b
MaxCommonLen(a, b) ==
    LET lens == {Cardinality(P) : P \in {Q \in SUBSET (1..Len(a)) : IsSubseq(Pick(a, Q), b)}}
    IN CHOOSE k \in lens : \A l \in lens : l <= k

IsAscii(s) == \A i \in DOMAIN s : s[i] < 128

LcsReturnsLongest ==
    /\ dop = "lcs" => dpc /= "panic"
    /\ (dop = "lcs" /\ dpc = "done") =>
          /\ IsSubseq(dres, s1) /\ IsSubseq(dres, s2)
          /\ Len(dres) = MaxCommonLen(s1, s2)
          /\ (s1 = Str_ABCBDAB /\ s2 = Str_BDCABA) => Len(dres) = 4

\* C7: for every pair of strings lcs(a, b) returns a common subsequence of a
\* and b of the maximum length; lcs("ABCBDAB", "BDCABA") has length 4.
C7_LcsLongest == LcsReturnsLongest

\* what holds of lcs in place of C7: the same for strings of one-byte chars
Lcs_AsciiLongest == (IsAscii(s1) /\ IsAscii(s2)) => LcsReturnsLongest

\* the strings one insertion, deletion or substitution away from x, with the
\* chars of C and at most n chars
OneEdit(x, C, n) ==
    {SubSeq(x, 1, i - 1) \o SubSeq(x, i + 1, Len(x)) : i \in 1..Len(x)}
    \cup {[x EXCEPT ![i] = c] : i \in 1..Len(x), c \in C}
    \cup (IF Len(x) < n
          THEN {SubSeq(x, 1, i) \o <<c>> \o SubSeq(x, i + 1, Len(x)) :
                   i \in 0..Len(x), c \in C}
          ELSE {})

\* the least number of edits that lead from a string of F to b
RECURSIVE EditsFrom(_, _, _, _, _)
EditsFrom(F, b, C, n, k) ==
    IF b \in F THEN k
    ELSE EditsFrom(F \cup UNION {OneEdit(x, C, n) : x \in F}, b, C, n, k + 1)

\* the minimum number of single-char edits that turn a into b (no shortest
\* edit script passes through a string longer than both)
MinEdits(a, b) == EditsFrom({a}, b, Range(a) \cup Range(b), Max2(Len(a), Len(b)), 0)

EditDistanceReturnsMinimum ==
    /\ dop = "edit_distance" => dpc /= "panic"
    /\ (dop = "edit_distance" /\ dpc = "done") =>
          /\ (Len(s1) <= MaxStrLen /\ Len(s2) <= MaxStrLen) => dres = MinEdits(s1, s2)
          /\ s1 = s2 => dres = 0
          /\ s2 = << >> => dres = Len(s1)
          /\ (s1 = Str_kitten /\ s2 = Str_sitting) => dres = 3

\* C8: for every pair of strings edit_distance(a, b) is the minimum number of
\* single-character insertions, deletions and substitutions that turn a into
\* b; edit_distance(s, s) = 0, edit_distance(a, "") is the length of a, and
\* edit_distance("kitten", "sitting") = 3.
C8_EditDistanceMinimum == EditDistanceReturnsMinimum

\* what holds of edit_distance in place of C8: the same for strings of
\* one-byte chars
EditDistance_AsciiMinimum == (IsAscii(s1) /\ IsAscii(s2)) => EditDistanceReturnsMinimum

\* the exact total value of the items of P: the number of values equal to
\* i32::MAX among them and the sum of the others
RECURSIVE TotalValue(_)
TotalValue(P) ==
    IF P = {} THEN <<0, 0>>
    ELSE LET i == CHOOSE x \in P : TRUE
             t == TotalValue(P \ {i})
         IN IF kvalues[i] = I32_MAX THEN <<t[1] + 1, t[2]>>
            ELSE <<t[1], t[2] + kvalues[i]>>

RECURSIVE TotalWeight(_)
TotalWeight(P) ==
    IF P = {} THEN 0
    ELSE LET i == CHOOSE x \in P : TRUE IN kweights[i] + TotalWeight(P \ {i})

\* the order of exact totals (the sums of the small values stay far below i32::MAX)
TotalLeq(a, b) == a[1] < b[1] \/ (a[1] = b[1] /\ a[2] <= b[2])

\* the maximum total value of a set of items of total weight at most capacity
BestTotal ==
    LET fits == {TotalValue(P) : P \in {Q \in SUBSET (1..Len(kweights)) :
                                           TotalWeight(Q) <= kcap}}
    IN CHOOSE t \in fits : \A u \in fits : TotalLeq(u, t)

\* an exact total that an i32 holds, and the i32
FitsI32(t) == t[1] = 0 \/ (t[1] = 1 /\ t[2] <= 0)
AsI32(t) == IF t[1] = 0 THEN t[2] ELSE I32_MAX + t[2]

EqualLengths == Len(kweights) = Len(kvalues)

IsKnapsackScenario == kweights = <<1, 3, 4, 5>> /\ kvalues = <<1, 4, 5, 7>> /\ kcap = 7

\* C9 as stated: for equal-length weights and values and every capacity
\* knapsack returns the maximum total value of a subset of the items of total
\* weight at most capacity; knapsack([1,3,4,5], [1,4,5,7], 7) = 9.
C9_Original ==
    (dop = "knapsack" /\ EqualLengths) =>
        /\ dpc /= "panic"
        /\ dpc = "done" =>
              /\ FitsI32(BestTotal) /\ dres = AsI32(BestTotal)
              /\ IsKnapsackScenario => dres = 9

\* C9 amended: the same whenever that maximum is at most i32::MAX.
C9_KnapsackMaximum ==
    (dop = "knapsack" /\ EqualLengths /\ FitsI32(BestTotal)) =>
        /\ dpc /= "panic"
        /\ dpc = "done" =>
              /\ dres = AsI32(BestTotal)
              /\ IsKnapsackScenario => dres = 9

\* knapsack returned for three items of which the best subset leaves out one
\* that fits and has a positive value
C9_Witness ==
    /\ dop = "knapsack" /\ dpc = "done" /\ EqualLengths /\ FitsI32(BestTotal)
    /\ Len(kweights) = 3 /\ dres > 0
    /\ \E i \in 1..3 : /\ kweights[i] <= kcap /\ kvalues[i] > 0
                       /\ \A P \in SUBSET (1..3) :
                              (i \in P /\ TotalWeight(P) <= kcap)
                                  => TotalValue(P) /= BestTotal

\* the number of nodes below and including node
RECURSIVE NodeCount(_)
NodeCount(node) ==
    IF node = None THEN 0
    ELSE 1 + NodeCount(node[1].left) + NodeCount(node[1].right)

\* the values held by the nodes below and including node
RECURSIVE Values(_)
Values(node) ==
    IF node = None THEN {}
    ELSE {node[1].value} \cup Values(node[1].left) \cup Values(node[1].right)

\* C11: an insert of a value already present leaves the tree as it was (same
\* nodes, shape and values), so the number of nodes always equals the number
\* of distinct values inserted.
C11_DuplicateInsertNoOp ==
    /\ [][(ninserts' = ninserts + 1 /\ inserted' = inserted) => root' = root]_vars
    /\ [](NodeCount(root) = Cardinality(inserted))

\* three insert calls with two distinct values, so one call repeated a value
\* the tree held, and the tree has two nodes
C11_Witness ==
    /\ ninserts = 3 /\ Cardinality(inserted) = 2 /\ bres = NoQuery
    /\ NodeCount(root) = 2

\* every node of the tree below node has smaller values only in its left
\* subtree and greater values only in its right subtree
RECURSIVE IsSearchTree(_)
IsSearchTree(node) ==
    \/ node = None
    \/ /\ \A x \in Values(node[1].left) : x < node[1].value
       /\ \A x \in Values(node[1].right) : x > node[1].value
       /\ IsSearchTree(node[1].left)
       /\ IsSearchTree(node[1].right)

\* C12: in every state reached by insert calls every node has strictly smaller
\* values in its left subtree and strictly greater values in its right
\* subtree, and no value is held by two nodes.
C12_SearchTreeOrdering ==
    /\ IsSearchTree(root)
    /\ NodeCount(root) = Cardinality(Values(root))

\* a tree of four nodes on three levels, the root with both children
C12_Witness ==
    /\ NodeCount(root) = 4
    /\ root[1].left /= None /\ root[1].right /= None
    /\ \E side \in {root[1].left, root[1].right} :
          side[1].left /= None \/ side[1].right /= None

\* the number of edges of the graph that lead to v
InDegree(v) ==
    Cardinality({<<u, k>> \in UNION {{<<x, y>> : y \in 1..Len(edges[x])} : x \in DOMAIN edges} :
                    edges[u][k].to = v})

\* C13 as stated: during bfs(start) each vertex is pushed onto the queue at
\* most once over the whole run.
C13_Original ==
    gop = "bfs" => \A v \in BagToSet(pushes) : CopiesIn(v, pushes) <= 1

\* C13 amended: during bfs(start) a vertex is pushed onto the queue only while
\* it is not in the visited set, which it enters when it is popped; it can be
\* pushed more than once, at most once as start and once for each edge that
\* leads to it, and it is appended to the result at most once.
C13_PushedWhileUnvisited ==
    /\ [][gop' = "bfs" =>
             \A v \in BagToSet(pushes') :
                 CopiesIn(v, pushes') > CopiesIn(v, pushes) => v \notin seen']_vars
    /\ [](gop = "bfs" =>
             /\ \A v \in BagToSet(pushes) :
                    CopiesIn(v, pushes) <= InDegree(v) + (IF v = start THEN 1 ELSE 0)
             /\ NoRepeat(result))

\* a bfs that returned after it pushed one vertex twice and another once
C13_Witness ==
    /\ gop = "bfs" /\ gpc = "done"
    /\ \E v \in BagToSet(pushes) : CopiesIn(v, pushes) = 2
    /\ \E v \in BagToSet(pushes) \ {start} : CopiesIn(v, pushes) = 1

\* a turn of the backward walk of lcs at a cell whose two chars differ
WalkStepAtMismatch ==
    /\ dop = "lcs" /\ dpc = "back" /\ dpc' = "back"
    /\ di > 0 /\ dj > 0
    /\ <<di', dj'>> /= <<di, dj>>
    /\ s1[di] /= s2[dj]

\* C14 as stated: at a cell (i, j) with a[i-1] /= b[j-1] the walk steps toward
\* the larger of dp[i-1][j] and dp[i][j-1], and decrements i when they are equal.
C14_Original ==
    [][WalkStepAtMismatch =>
          IF dp[di - 1][dj] >= dp[di][dj - 1]
          THEN di' = di - 1 /\ dj' = dj
          ELSE di' = di /\ dj' = dj - 1]_vars

\* C14 amended: at such a cell the walk steps toward the larger of the two
\* cells, and decrements j (not i) when they are equal.
C14_TieDecrementsJ ==
    [][WalkStepAtMismatch =>
          IF dp[di - 1][dj] > dp[di][dj - 1]
          THEN di' = di - 1 /\ dj' = dj
          ELSE di' = di /\ dj' = dj - 1]_vars

\* lcs("AB", "BA") returned "B": at (2, 2) the chars differ and both cells
\* hold 1; the walk went to (2, 1), where it took 'B', not to (1, 2) and 'A'
C14_Witness ==
    /\ dop = "lcs" /\ dpc = "done"
    /\ s1 = <<65, 66>> /\ s2 = <<66, 65>>
    /\ dp[1][2] = 1 /\ dp[2][1] = 1
    /\ dres = <<66>>

\* the table of lcs over the chars of a and b: the cell (i, j)
RECURSIVE CharLcsLen(_, _, _, _)
CharLcsLen(a, b, i, j) ==
    IF i = 0 \/ j = 0 THEN 0
    ELSE IF a[i] = b[j] THEN CharLcsLen(a, b, i - 1, j - 1) + 1
    ELSE Max2(CharLcsLen(a, b, i - 1, j), CharLcsLen(a, b, i, j - 1))

\* the backward walk over that table from the cell (i, j)
RECURSIVE CharLcsWalk(_, _, _, _)
CharLcsWalk(a, b, i, j) ==
    IF i = 0 \/ j = 0 THEN << >>
    ELSE IF a[i] = b[j] THEN Append(CharLcsWalk(a, b, i - 1, j - 1), a[i])
    ELSE IF CharLcsLen(a, b, i - 1, j) > CharLcsLen(a, b, i, j - 1)
    THEN CharLcsWalk(a, b, i - 1, j)
    ELSE CharLcsWalk(a, b, i, j - 1)

\* the table of edit_distance over the chars of a and b: the cell (i, j)
RECURSIVE CharEditDistance(_, _, _, _)
CharEditDistance(a, b, i, j) ==
    IF i = 0 THEN j
    ELSE IF j = 0 THEN i
    ELSE IF a[i] = b[j] THEN CharEditDistance(a, b, i - 1, j - 1)
    ELSE 1 + Min2(Min2(CharEditDistance(a, b, i - 1, j), CharEditDistance(a, b, i, j - 1)),
                  CharEditDistance(a, b, i - 1, j - 1))

CodePointTables ==
    dop \in {"lcs", "edit_distance"} =>
        /\ dpc /= "panic"
        /\ DOMAIN dp = 0..Len(s1) /\ DOMAIN dp[0] = 0..Len(s2)
        /\ (dpc = "done" /\ dop = "lcs") => dres = CharLcsWalk(s1, s2, Len(s1), Len(s2))
        /\ (dpc = "done" /\ dop = "edit_distance") =>
               dres = CharEditDistance(s1, s2, Len(s1), Len(s2))

\* C15: lcs and edit_distance size and index their tables by chars (code
\* points), not bytes: for every pair of strings, those with chars of more than
\* one byte included, both complete without an out-of-range access and return
\* the result of the tables over the two sequences of chars.
C15_CodePointTables == CodePointTables

\* what holds of the two functions in place of C15: the same for strings of
\* one-byte chars
CodePointTables_Ascii == (IsAscii(s1) /\ IsAscii(s2)) => CodePointTables

\* the edges that leave a vertex reachable from s and lead outside 0..vertices
OutOfRangeEdges(s) ==
    {<<u, k>> \in UNION {{<<x, y>> : y \in 1..Len(edges[x])} : x \in Reachable(s) \cap DOMAIN edges} :
        edges[u][k].to >= vertices}

\* knapsack stopped at values[i - 1] with i - 1 outside values
KnapsackIndexPanic ==
    dop = "knapsack" /\ dpc = "panic" /\ di > Len(kvalues) /\ kweights[di] <= dj

\* the items that have a weight and no value
Valueless == (Len(kvalues) + 1)..Len(kweights)

C16_KnapsackWitness ==
    /\ KnapsackIndexPanic /\ Len(kweights) = 2 /\ Len(kvalues) = 1 /\ di = 2

\* knapsack with fewer values than weights returned
C16_KnapsackReturnsWitness ==
    /\ dop = "knapsack" /\ dpc = "done" /\ Len(kweights) = 2 /\ Len(kvalues) = 1

\* C17: on a graph with edge weights of either sign, negative cycles included,
\* dijkstra(source) with source and all edges in 0..vertices terminates and
\* returns a table of length vertices (its distances may be wrong): it neither
\* fails nor runs forever.
C17_NegativeWeightsTerminate ==
    /\ []((gop = "dijkstra" /\ start < vertices) => gpc /= "panic")
    /\ []((gop = "dijkstra" /\ start < vertices) => <>DijkstraDone)
    /\ [](DijkstraDone => DOMAIN result = 0..(vertices - 1))

\* dijkstra returned on a graph with a cycle of negative weight through the
\* source, and an edge would still shorten a distance of the table returned
C17_Witness ==
    /\ DijkstraDone /\ start \in DOMAIN edges
    /\ \E u \in DOMAIN edges : \E k \in 1..Len(edges[u]) :
          /\ edges[u][k].to = start /\ u /= start /\ edges[u][k].weight < 0
          /\ \E j \in 1..Len(edges[start]) :
                edges[start][j].to = u /\ edges[start][j].weight < 0
          /\ SaturatingAdd(result[u], edges[u][k].weight) < result[start]

\* dijkstra returned a wrong distance on the graph with the detour: 2 for
\* vertex 1, which the path through 2 reaches at 1
C17_DetourWitness ==
    /\ DijkstraDone /\ edges = DetourEdges /\ start = 0
    /\ result = [v \in 0..2 |-> <<0, 2, 3>>[v + 1]]

DijkstraRunning == gop = "dijkstra" /\ gpc \in {"dijkstra", "relax"}

\* C18: during dijkstra the table only moves downward: it starts with 0 for
\* the source and i32::MAX for every other vertex, and every write to dist[v]
\* stores a value strictly smaller than the one it replaces.
C18_DistOnlyDecreases ==
    [][/\ (gpc = "idle" /\ gpc' = "dijkstra") =>
              dist' = [v \in 0..(vertices - 1) |-> IF v = start' THEN 0 ELSE I32_MAX]
       /\ DijkstraRunning =>
              /\ DOMAIN dist' = DOMAIN dist
              /\ \A v \in DOMAIN dist : dist'[v] /= dist[v] => dist'[v] < dist[v]
              /\ (gpc = "relax" /\ heap' /= heap) =>
                     \E v \in DOMAIN dist : /\ dist'[v] < dist[v]
                                            /\ PQItem(v, dist'[v]) \in BagToSet(heap')]_vars

\* dist[v] was written twice after it was initialized: the heap holds two
\* entries for v, and dist[v], the lesser of their priorities, is below zero
C18_Witness ==
    /\ DijkstraRunning
    /\ \E v \in DOMAIN dist : \E x, y \in BagToSet(heap) :
          /\ x.value = v /\ y.value = v
          /\ x.priority < y.priority /\ y.priority < I32_MAX
          /\ dist[v] = x.priority /\ dist[v] < 0

\* C19: on every graph (cycles, self-loops and edges of weight zero included)
\* the loop of dijkstra empties the heap and returns; each vertex is marked
\* visited and has its edges relaxed at most once, and an entry popped for a
\* vertex already visited is skipped: dist, visited and the rest of the heap
\* stay as they are.
C19_LazyDeletionTerminates ==
    /\ []((gop = "dijkstra" /\ start < vertices) => <>(DijkstraDone /\ heap = EmptyBag))
    /\ [][DijkstraRunning =>
             /\ \A u \in DOMAIN visited : visited[u] => visited'[u]
             /\ (gpc = "dijkstra" /\ gpc' = "relax") => (~visited[cur'] /\ visited'[cur'])
             /\ (gpc = "relax" /\ gpc' = "relax") =>
                    (cur' = cur /\ ei' = ei + 1 /\ visited' = visited)
             /\ \A item \in BagToSet(heap) :
                    (gpc = "dijkstra" /\ heap' = heap (-) SetToBag({item})
                        /\ visited[item.value])
                    => (dist' = dist /\ visited' = visited /\ gpc' = "dijkstra")
             /\ gpc = "dijkstra" =>
                    \/ gpc' = "done" /\ heap = EmptyBag /\ heap' = heap
                    \/ \E item \in BagToSet(heap) : heap' = heap (-) SetToBag({item})]_vars

\* dijkstra(0) on the graph of the scenario has visited every vertex and has
\* skipped the stale entry for vertex 1; the stale entry for vertex 3 is left
C19_Witness ==
    /\ IsScenario /\ gop = "dijkstra" /\ gpc = "dijkstra" /\ start = 0
    /\ \A v \in DOMAIN visited : visited[v]
    /\ heap = SetToBag({PQItem(3, 6)})
    /\ dist = [v \in 0..3 |-> <<0, 2, 1, 3>>[v + 1]]

\* dijkstra returned on a graph with a self-loop of weight zero at the source
C19_SelfLoopWitness ==
    /\ DijkstraDone /\ start \in DOMAIN edges
    /\ \E k \in 1..Len(edges[start]) :
          edges[start][k].to = start /\ edges[start][k].weight = 0

\* the destinations of the edges of the vertices of q, vertex by vertex in the
\* order of q and edge by edge in the order of insertion
RECURSIVE Successors(_)
Successors(q) ==
    IF q = << >> THEN << >>
    ELSE (IF Head(q) \in DOMAIN edges
          THEN [k \in 1..Len(edges[Head(q)]) |-> edges[Head(q)][k].to]
          ELSE << >>) \o Successors(Tail(q))

\* the members of q that are not in S, each at its first occurrence only
RECURSIVE FirstNew(_, _)
FirstNew(q, S) ==
    IF q = << >> THEN << >>
    ELSE IF Head(q) \in S THEN FirstNew(Tail(q), S)
    ELSE <<Head(q)>> \o FirstNew(Tail(q), S \cup {Head(q)})

\* the levels from the level `level` on, as a sequence of sequences: each
\* level holds the vertices first discovered from the level before, in the
\* order of their discovery; known holds the vertices of the levels so far
RECURSIVE LevelsFrom(_, _)
LevelsFrom(level, known) ==
    IF level = << >> THEN << >>
    ELSE <<level>> \o LevelsFrom(FirstNew(Successors(level), known),
                                 known \cup Range(FirstNew(Successors(level), known)))

Levels(s) == LevelsFrom(<<s>>, {s})

RECURSIVE Flatten(_)
Flatten(qs) == IF qs = << >> THEN << >> ELSE Head(qs) \o Flatten(Tail(qs))

\* the number of edges of a shortest path from s to v, v being reachable
Hop(s, v) == (CHOOSE k \in DOMAIN Levels(s) : v \in Range(Levels(s)[k])) - 1

BfsDone == gop = "bfs" /\ gpc = "done"

\* C20: bfs(start) is a level-order traversal: start comes first, the vertices
\* appear in non-decreasing order of their hop distance from start, and those
\* of one level in the order in which they were first discovered (vertex by
\* vertex of the level before, edge by edge in the order of insertion).
C20_BfsLevelOrder ==
    BfsDone =>
        /\ result[1] = start
        /\ \A i, j \in DOMAIN result :
               i < j => Hop(start, result[i]) <= Hop(start, result[j])
        /\ result = Flatten(Levels(start))

\* a bfs that returned three levels, the second with two vertices and the
\* third with a vertex that both of them pushed
C20_Witness ==
    /\ BfsDone /\ Len(Levels(start)) = 3 /\ Len(Levels(start)[2]) = 2
    /\ \E v \in Range(Levels(start)[3]) : CopiesIn(v, pushes) = 2

\* dijkstra returned a table that holds the least i32 twice: the sum for
\* vertex 2 was cut off there
C17_FloorWitness ==
    /\ DijkstraDone /\ edges = FloorEdges /\ start = 0
    /\ result = [v \in 0..2 |-> <<0, I32_MIN, I32_MIN>>[v + 1]]

\* a pre-order traversal with an explicit stack, its top at the head: a vertex
\* popped is skipped if visited and otherwise recorded, and its destinations
\* go on the stack so that the one of the first edge is on top
RECURSIVE StackPreorder(_, _, _)
StackPreorder(stk, vis, out) ==
    IF stk = << >> THEN out
    ELSE IF Head(stk) \in vis THEN StackPreorder(Tail(stk), vis, out)
    ELSE StackPreorder(Successors(<<Head(stk)>>) \o Tail(stk),
                       vis \cup {Head(stk)}, Append(out, Head(stk)))

DfsDone == gop = "dfs" /\ gpc = "done"

\* C21: dfs(start) returns the pre-order of a depth-first search that takes the
\* edges of each vertex in the order they were added: start comes first, every
\* other vertex comes after a vertex that has an edge to it, and the result is
\* that of the pre-order traversal with an explicit stack over the same lists.
C21_DfsPreorder ==
    DfsDone =>
        /\ result[1] = start
        /\ \A j \in 2..Len(result) :
               \E i \in 1..(j - 1) : result[j] \in Range(Successors(<<result[i]>>))
        /\ result = StackPreorder(<<start>>, {}, << >>)

\* a dfs that returned four vertices in another order than level order: it
\* went down from the first neighbour of start before it took the second
C21_Witness ==
    /\ DfsDone /\ Len(result) = 4
    /\ result /= Flatten(Levels(start))
    /\ Len(Levels(start)[2]) = 2

\* the adjacency list of from, empty when from has no entry
ListOf(es, from) == IF from \in DOMAIN es THEN es[from] ELSE << >>

CallerTakesResult ==
    /\ gpc = "done"
    /\ last' = [op |-> gop, arg |-> start, ret |-> result]
    /\ gpc' = "idle" /\ gop' = "none" /\ start' = 0
    /\ dist' = << >> /\ visited' = << >> /\ heap' = EmptyBag
    /\ cur' = 0 /\ ei' = 0
    /\ seen' = {} /\ queue' = << >> /\ stack' = << >> /\ result' = << >>
    /\ pushes' = EmptyBag
    /\ UNCHANGED <<vertices, edges>>
    /\ UNCHANGED notGraph

\* the tree after BST::new() and the insert calls of q in turn
RECURSIVE TreeOf(_)
TreeOf(q) == IF q = << >> THEN None ELSE insert(TreeOf(SubSeq(q, 1, Len(q) - 1)), q[Len(q)])

\* the insert calls of tests::test_bst, a run with a repeated value, and none
InsertRuns == {<< >>, <<5, 3, 7>>, <<2, 1, 2>>}

\* the values find is called with: those of tests::test_bst among them
Probes == (0..(MaxVal + 1)) \cup {10}

\* a graph and a tree are built, each by its calls; from then on only queries
\* are made
InitQueries ==
    /\ \/ vertices = NumVertices /\ edges = << >>
       \/ vertices = ScenarioVertices /\ edges = ScenarioEdges
       \/ vertices = ScenarioVertices /\ edges = CyclicEdges
       \/ vertices = DetourVertices /\ edges = DetourEdges
       \/ vertices = DetourVertices /\ edges = FloorEdges
    /\ GraphIdle
    /\ \E q \in InsertRuns :
          /\ root = TreeOf(q)
          /\ inserted = Range(q)
          /\ ninserts = Len(q)
    /\ bres = NoQuery
    /\ SortIdle
    /\ DpIdle

NextQueries ==
    \/ \E v \in Probes : Find(v)
    \/ InOrder
    \/ \E s \in 0..vertices : DijkstraCall(s)
    \/ DijkstraPop
    \/ DijkstraRelax
    \/ DijkstraReturn
    \/ \E s \in 0..vertices : BfsCall(s)
    \/ BfsIter
    \/ BfsReturn
    \/ \E s \in 0..vertices : DfsCall(s)
    \/ DfsStep
    \/ DfsReturn
    \/ CallerTakesResult

SpecQueries == InitQueries /\ [][NextQueries]_vars

\* C23: the queries leave their structure as it is and can be repeated: find
\* and in_order do not change the tree, dijkstra, bfs and dfs do not change the
\* graph, and a query called twice in a row with the same argument, nothing
\* being inserted or added in between, returns equal results.
C23_QueriesRepeatable ==
    /\ [][bres' /= bres => root' = root]_vars
    /\ [][(gop /= "none" \/ gop' /= "none") =>
             (edges' = edges /\ vertices' = vertices)]_vars
    /\ [](bres.op = "find" => bres.ret = find(root, bres.arg))
    /\ [](bres.op = "in_order" => bres.ret = in_order(root))
    /\ []((gpc = "done" /\ last.op = gop /\ last.arg = start) => result = last.ret)

\* dfs(0) returned four vertices for the second time in a row, after find
\* returned true on the tree of three nodes
C23_Witness ==
    /\ gpc = "done" /\ gop = "dfs" /\ last.op = "dfs" /\ last.arg = start
    /\ Len(result) = 4 /\ result = last.ret
    /\ bres.op = "find" /\ bres.ret /\ NodeCount(root) = 3

\* dijkstra(0) returned for the second time in a row on the graph of the scenario
C23_DijkstraWitness ==
    /\ DijkstraDone /\ IsScenario /\ last.op = "dijkstra" /\ last.arg = start
    /\ start = 0 /\ result = last.ret

\* ======================= partition on any range =======================

\* partition called on the slice with any two indices (lines 237-249):
\* arr[high] panics with high outside the slice, and so does the last swap
\* with low outside it; the frame keeps the arguments and the index returned
PartitionCall(low, high) ==
    /\ spc = "idle"
    /\ sop' = "partition"
    /\ IF high >= Len(arr) \/ low >= Len(arr)
       THEN spc' = "panic" /\ qstack' = <<Frame(low, high)>> /\ UNCHANGED arr
       ELSE LET r == partition(arr, low, high)
            IN /\ spc' = "done"
               /\ arr' = r.arr
               /\ qstack' = <<[Frame(low, high) EXCEPT !.pc = "return", !.p = r.p]>>
    /\ UNCHANGED <<input, sres>>
    /\ UNCHANGED notSort

NextPartition == \E low, high \in 0..Len(arr) : PartitionCall(low, high)

SpecPartition == InitSort /\ [][NextPartition]_vars

PartitionDone == sop = "partition" /\ spc = "done"

\* the elements of a at the 0-based indices low..=high
Slice(a, low, high) == SubSeq(a, low + 1, high + 1)

\* C24: partition(arr, low, high) with low <= high inside the slice takes
\* arr[high] as pivot and returns p with low <= p <= high; afterwards arr[p] is
\* the pivot, the elements in low..p are less than it, those in p+1..=high are
\* not less than it, low..=high holds the elements it held before, and
\* the elements outside low..=high are where they were.
C24_PartitionPostcondition ==
    (PartitionDone /\ qstack[1].low <= qstack[1].high) =>
        LET low == qstack[1].low
            high == qstack[1].high
            p == qstack[1].p
            pivot == At(input, high)
        IN /\ low <= p /\ p <= high
           /\ At(arr, p) = pivot
           /\ \A k \in low..(p - 1) : Lt(At(arr, k), pivot)
           /\ \A k \in (p + 1)..high : Le(pivot, At(arr, k))
           /\ Permutation(Slice(arr, low, high), Slice(input, low, high))
           /\ Len(arr) = Len(input)
           /\ \A k \in 0..(Len(arr) - 1) :
                  (k < low \/ k > high) => At(arr, k) = At(input, k)

\* partition returned an index strictly inside a range that is strictly
\* inside the slice, having moved elements
C24_Witness ==
    /\ PartitionDone
    /\ 0 < qstack[1].low /\ qstack[1].low < qstack[1].p
    /\ qstack[1].p < qstack[1].high /\ qstack[1].high < Len(arr) - 1
    /\ Slice(arr, qstack[1].low, qstack[1].p - 1) /= Slice(input, qstack[1].low, qstack[1].p - 1)

\* ======================= the leaf an insert adds =======================

\* the turns ("left", "right") a search for value takes from node down to the
\* first empty child slot; value is not in the tree
RECURSIVE SlotPath(_, _)
SlotPath(node, value) ==
    IF node = None THEN << >>
    ELSE IF value < node[1].value THEN <<"left">> \o SlotPath(node[1].left, value)
    ELSE <<"right">> \o SlotPath(node[1].right, value)

\* what hangs in the slot the turns of path lead to: None past an empty slot
RECURSIVE SubtreeAt(_, _)
SubtreeAt(node, path) ==
    IF path = << >> THEN node
    ELSE IF node = None THEN None
    ELSE IF path[1] = "left" THEN SubtreeAt(node[1].left, Tail(path))
    ELSE SubtreeAt(node[1].right, Tail(path))

\* the tree with the slot the turns of path lead to emptied
RECURSIVE RemoveAt(_, _)
RemoveAt(node, path) ==
    IF path = << >> \/ node = None THEN None
    ELSE IF path[1] = "left"
    THEN Some([node[1] EXCEPT !.left = RemoveAt(node[1].left, Tail(path))])
    ELSE Some([node[1] EXCEPT !.right = RemoveAt(node[1].right, Tail(path))])

\* C25: an insert of a value not yet present adds one leaf, in the first
\* empty child slot on the search path of the value (the root slot of an
\* empty tree), and changes nothing else: the old tree is the new tree with
\* that leaf removed.
C25_InsertAddsOneLeaf ==
    [][(ninserts' /= ninserts /\ inserted' /= inserted) =>
          LET value == CHOOSE v \in inserted' : v \notin inserted
              path == SlotPath(root, value)
          IN /\ SubtreeAt(root, path) = None
             /\ SubtreeAt(root', path) = Some(TreeNode(value, None, None))
             /\ RemoveAt(root', path) = root
             /\ NodeCount(root') = NodeCount(root) + 1]_vars

\* the third insert put its leaf two turns below the root, left then right
C25_Witness ==
    /\ ninserts = 3 /\ bres = NoQuery
    /\ NodeCount(root) = 3
    /\ SubtreeAt(root, <<"left", "right">>) /= None

\* ======================= saturation of the relaxation sum =======================

\* the for loop of dijkstra is at an edge whose target is in the table
AtRelaxation == gop = "dijkstra" /\ gpc = "relax" /\ ~IndexFails(edges[cur][ei])

\* C26: with weights that are not negative, the sum dist[u] + weight of every
\* relaxation is the exact sum cut off at i32::MAX and never a negative number,
\* a sum cut off at i32::MAX replaces no stored distance, and every entry of
\* the table returned is in 0..=i32::MAX.
C26_RelaxationSaturates ==
    /\ [](AtRelaxation =>
            LET edge == edges[cur][ei]
                new_dist == SaturatingAdd(dist[cur], edge.weight)
            IN /\ new_dist = Saturated(BigAdd(Big(dist[cur]), Big(edge.weight)))
               /\ new_dist >= dist[cur]
               /\ new_dist >= 0 /\ new_dist <= I32_MAX)
    /\ [][(AtRelaxation /\ BigLess(Big(I32_MAX - 1),
                                   BigAdd(Big(dist[cur]), Big(edges[cur][ei].weight))))
             => (dist' = dist /\ heap' = heap)]_vars
    /\ [](DijkstraRunning => \A v \in DOMAIN dist : dist[v] >= 0 /\ dist[v] <= I32_MAX)
    /\ [](DijkstraDone => \A v \in DOMAIN result : result[v] >= 0 /\ result[v] <= I32_MAX)

\* the exact sum of a relaxation is above i32::MAX, and its target has no
\* distance yet
C26_Witness ==
    /\ AtRelaxation
    /\ dist[cur] > 0 /\ edges[cur][ei].weight = I32_MAX
    /\ ~visited[edges[cur][ei].to]
    /\ dist[edges[cur][ei].to] = I32_MAX

\* ======================= the order of the visits =======================

\* the step is a pop of the loop of dijkstra
IsPop == gop = "dijkstra" /\ gpc = "dijkstra" /\ heap' /= heap

\* the entry the pop takes from the heap
Popped == CHOOSE x \in BagToSet(heap) : CopiesIn(x, heap') < CopiesIn(x, heap)

\* C27: with weights that are not negative, every pop of the heap of dijkstra
\* returns an entry of the least priority queued, the vertices are marked
\* visited in non-decreasing order of their final distance, and a vertex being
\* marked visited has its true shortest-path distance from source as its
\* tentative distance.
C27_VisitsInDistanceOrder ==
    /\ [][IsPop => \A y \in BagToSet(heap) : Popped.priority <= y.priority]_vars
    /\ [][IsPop =>
            \A v \in DOMAIN visited :
                (visited'[v] /\ ~visited[v]) =>
                    /\ v = Popped.value
                    /\ Big(dist[v]) = TrueDist(start)[v]
                    /\ \A u \in DOMAIN visited :
                          visited[u] =>
                              /\ dist[u] <= dist[v]
                              /\ ~BigLess(TrueDist(start)[v], TrueDist(start)[u])]_vars
    /\ []((DijkstraRunning \/ DijkstraDone) =>
            \A u \in DOMAIN visited :
                visited[u] => Big(dist[u]) = TrueDist(start)[u])
    /\ [](DijkstraDone => result = dist)

\* a vertex away from source is marked visited while the heap holds two
\* entries of another vertex, the older one at the greater priority
C27_Witness ==
    /\ DijkstraRunning /\ NonNegativeWeights
    /\ \E u \in DOMAIN visited : visited[u] /\ dist[u] > 0
    /\ \E x, y \in BagToSet(heap) :
          /\ x.value = y.value /\ x.priority < y.priority
          /\ ~visited[x.value]

\* ======================= the entries of visited vertices =======================

\* C28: whatever the weights, the dist entry of a vertex marked visited is
\* never written again; source is the first vertex marked, so the table
\* returned has dist[source] == 0, a path of negative weight back to source
\* or not.
C28_VisitedEntriesFrozen ==
    /\ [][DijkstraRunning =>
             /\ \A v \in DOMAIN visited : visited[v] => (visited'[v] /\ dist'[v] = dist[v])
             /\ ((\A u \in DOMAIN visited : ~visited[u]) /\ visited' /= visited) =>
                    (visited'[start] /\ dist[start] = 0)]_vars
    /\ [](DijkstraDone => (visited[start] /\ result[start] = 0))

\* dijkstra returned on a graph where an edge leads back to source from a
\* vertex it left below zero
C28_Witness ==
    /\ DijkstraDone
    /\ \E u \in DOMAIN edges : \E k \in 1..Len(edges[u]) :
          /\ u < vertices /\ u /= start
          /\ edges[u][k].to = start
          /\ visited[u] /\ result[u] < 0
          /\ SaturatingAdd(result[u], edges[u][k].weight) < 0

\* ======================= the indices of quick_sort =======================

\* the number of indices in low..=high
RangeSize(f) == IF f.high < f.low THEN 0 ELSE (f.high - f.low) + 1

\* C29: quick_sort, quick_sort_helper and partition read and swap no index
\* outside the slice, p - 1 is not evaluated with p == 0, and every recursive
\* call is on an index range strictly smaller than the one of its caller.
C29_QuickSortIndicesSafe ==
    sop = "quick_sort" =>
        /\ spc /= "panic"
        /\ Len(arr) = Len(input)
        /\ \A k \in DOMAIN qstack :
              LET f == qstack[k]
              IN /\ f.low >= 0 /\ f.high >= 0
                 /\ f.low < f.high => f.high < Len(arr)
                 /\ f.pc /= "entry" => (f.low <= f.p /\ f.p <= f.high)
                 /\ k > 1 =>
                       /\ qstack[k - 1].pc /= "entry"
                       /\ f.low >= qstack[k - 1].low
                       /\ f.high <= qstack[k - 1].high
                       /\ RangeSize(f) < RangeSize(qstack[k - 1])
                       /\ f.high = qstack[k - 1].p - 1 => qstack[k - 1].p > 0

\* partition returned 0 to the first call, which skipped its first recursive
\* call, and the second one has made a recursive call of its own
C29_Witness ==
    /\ sop = "quick_sort" /\ Len(qstack) = 3
    /\ qstack[1].pc = "return" /\ qstack[1].p = 0
    /\ qstack[2].low = 1 /\ qstack[2].pc = "second"

\* ======================= the heap against the table =======================

\* the loop of dijkstra is about to pop, or to end on an empty heap
AtLoopHead == gop = "dijkstra" /\ gpc = "dijkstra"

\* C30: at the start of every iteration of the loop of dijkstra, every
\* unvisited vertex with a tentative distance below i32::MAX has a heap entry
\* whose priority is that distance, and no heap entry has a priority below
\* the tentative distance of its vertex.
C30_HeapCoversTable ==
    AtLoopHead =>
        /\ \A v \in DOMAIN dist :
              (~visited[v] /\ dist[v] < I32_MAX) => BagIn(PQItem(v, dist[v]), heap)
        /\ \A x \in BagToSet(heap) :
              x.value \in DOMAIN dist /\ x.priority >= dist[x.value]

\* at the start of an iteration the heap holds two entries of an unvisited
\* vertex, one of them at its tentative distance, and an entry of a visited one
C30_Witness ==
    /\ AtLoopHead
    /\ \E v \in DOMAIN dist :
          /\ ~visited[v] /\ dist[v] < I32_MAX
          /\ BagIn(PQItem(v, dist[v]), heap)
          /\ \E x \in BagToSet(heap) : x.value = v /\ x.priority > dist[v]
    /\ \E y \in BagToSet(heap) : visited[y.value]

\* at the start of an iteration an unvisited vertex is queued at a distance
\* below zero
C30_NegativeWitness ==
    /\ AtLoopHead
    /\ \E v \in DOMAIN dist : ~visited[v] /\ dist[v] < 0 /\ BagIn(PQItem(v, dist[v]), heap)

====
